---- MODULE Spec2Model ----
(***************************************************************************)
(* Model of the encrypted credential vault store of build_stream:          *)
(* VaultClient (api/auth/vault_client.py) and the registration flow that   *)
(* drives it.  A handler is a server worker executing one registration;    *)
(* the route is a coroutine that calls the synchronous service, so the     *)
(* handlers that run concurrently are workers in different threads or      *)
(* processes, all on the one vault file.  Every subprocess call and every  *)
(* file-system call of the code is one atomic step, so that the            *)
(* interleavings of the handlers are the interleavings the operating       *)
(* system can produce.  VaultClient takes no lock.                         *)
(***************************************************************************)
EXTENDS Integers, Sequences, FiniteSets, TLC

(***************************************************************************)
(* Bounds of the model and constants of the program.                       *)
(***************************************************************************)
NumWriters == 2
MaxIds == 3
MaxCrashes == 1
MaxDisables == 1
MAX_ACTIVE_CLIENTS == 1

\* The handlers that register clients.
Procs == 1..NumWriters
Ids == 1..MaxIds
Names == {"svc-a", "svc-b"}
AdminCred == "admin:hash"

(***************************************************************************)
(* Vault documents.  A document is a mapping from top-level keys to        *)
(* values: "oauth_clients" maps client ids to client records, and          *)
(* "auth_registration" is the admin credential that shares the file.       *)
(* A client record is a mapping with the keys client_name and, optionally, *)
(* is_active.                                                              *)
(***************************************************************************)
EmptyMap == [k \in {} |-> 0]
EmptyDoc == EmptyMap

HasClients(doc) == "oauth_clients" \in DOMAIN doc
HasAuth(doc) == "auth_registration" \in DOMAIN doc

WithKey(doc, key, val) ==
  [k \in (DOMAIN doc) \cup {key} |-> IF k = key THEN val ELSE doc[k]]

WithEntry(m, id, val) ==
  [i \in (DOMAIN m) \cup {id} |-> IF i = id THEN val ELSE m[i]]

(***************************************************************************)
(* YAML text.  The text of a document is a sequence of lines; a line       *)
(* carries the path of one scalar (top-level key, client id, field) and    *)
(* the scalar as text.  Keys are dumped in sorted order, an empty mapping  *)
(* is dumped as the flow mapping "{}", booleans as true / false.           *)
(***************************************************************************)
Line(top, id, field, val) == [top |-> top, id |-> id, field |-> field, val |-> val]

BoolText(b) == IF b THEN "true" ELSE "false"

\* The elements of a set of numbers in ascending order.
SortedSeq(S) ==
  [k \in 1..Cardinality(S) |->
     CHOOSE x \in S : Cardinality({y \in S : y < x}) = k - 1]

RecordLines(id, rec) ==
  IF DOMAIN rec = {}
  THEN <<Line("oauth_clients", id, "", "{}")>>
  ELSE (IF "client_id" \in DOMAIN rec
        THEN <<Line("oauth_clients", id, "client_id", rec.client_id)>>
        ELSE <<>>)
       \o
       (IF "client_name" \in DOMAIN rec
        THEN <<Line("oauth_clients", id, "client_name", rec.client_name)>>
        ELSE <<>>)
       \o
       (IF "is_active" \in DOMAIN rec
        THEN <<Line("oauth_clients", id, "is_active", BoolText(rec.is_active))>>
        ELSE <<>>)
       \o
       (IF "secret_hash" \in DOMAIN rec
        THEN <<Line("oauth_clients", id, "secret_hash", rec.secret_hash)>>
        ELSE <<>>)

\* The lines of the first k records of clients, in the order ids.
RECURSIVE ClientsLines(_, _, _)
ClientsLines(clients, ids, k) ==
  IF k = 0 THEN <<>>
  ELSE ClientsLines(clients, ids, k - 1) \o RecordLines(ids[k], clients[ids[k]])

yaml_safe_dump(doc) ==
  IF DOMAIN doc = {}
  THEN <<Line("{}", 0, "", "")>>
  ELSE (IF HasAuth(doc)
        THEN <<Line("auth_registration", 0, "", doc.auth_registration)>>
        ELSE <<>>)
       \o
       (IF HasClients(doc)
        THEN IF DOMAIN doc.oauth_clients = {}
             THEN <<Line("oauth_clients", 0, "", "{}")>>
             ELSE ClientsLines(doc.oauth_clients, SortedSeq(DOMAIN doc.oauth_clients),
                               Cardinality(DOMAIN doc.oauth_clients))
        ELSE <<>>)

LinesOf(text) == {text[i] : i \in DOMAIN text}

LoadRecord(text, id) ==
  LET ls == {l \in LinesOf(text) : l.top = "oauth_clients" /\ l.id = id /\ l.field # ""}
  IN [f \in {l.field : l \in ls} |->
        LET l == CHOOSE l \in ls : l.field = f
        IN IF f = "is_active" THEN l.val = "true" ELSE l.val]

LoadClients(text) ==
  LET ls == {l \in LinesOf(text) : l.top = "oauth_clients" /\ l.id # 0}
  IN [i \in {l.id : l \in ls} |-> LoadRecord(text, i)]

\* The value yaml.safe_load returns: none for an empty stream, else the mapping.
yaml_safe_load(text) ==
  IF text = <<>>
  THEN [none |-> TRUE, value |-> EmptyDoc]
  ELSE [none |-> FALSE,
        value |->
          [k \in {l.top : l \in LinesOf(text)} \ {"{}"} |->
             IF k = "auth_registration"
             THEN (CHOOSE l \in LinesOf(text) : l.top = k).val
             ELSE LoadClients(text)]]

(***************************************************************************)
(* Files.  A file is absent, plaintext or vault-encrypted, with its text.  *)
(* An empty file is the plaintext file with no lines.                      *)
(***************************************************************************)
NoFile == [kind |-> "absent", text |-> <<>>]
PlainFile(text) == [kind |-> "plain", text |-> text]
EncryptedFile(text) == [kind |-> "vault", text |-> text]
Exists(file) == file.kind # "absent"

(***************************************************************************)
(* The external tool.  "view" prints the decrypted text of an encrypted    *)
(* file and leaves it alone, "encrypt" and "decrypt" rewrite the file in   *)
(* place.  fault is what the environment does to the call: nothing ("ok"), *)
(* a non-zero exit ("nonzero": bad passphrase, tool failure) or a timeout. *)
(***************************************************************************)
Faults == {"ok", "nonzero", "timeout"}

ansible_vault(command, file, pwdOk, fault) ==
  LET fails == [exit |-> "nonzero", stdout |-> <<>>, file |-> file]
  IN IF fault = "timeout" THEN [exit |-> "timeout", stdout |-> <<>>, file |-> file]
     ELSE IF fault = "nonzero" \/ ~pwdOk THEN fails
     ELSE CASE command = "view" ->
                 IF file.kind = "vault"
                 THEN [exit |-> "ok", stdout |-> file.text, file |-> file]
                 ELSE fails
            [] command = "encrypt" ->
                 IF file.kind = "plain"
                 THEN [exit |-> "ok", stdout |-> <<>>, file |-> EncryptedFile(file.text)]
                 ELSE fails
            [] command = "decrypt" ->
                 IF file.kind = "vault"
                 THEN [exit |-> "ok", stdout |-> <<>>, file |-> PlainFile(file.text)]
                 ELSE fails
            [] OTHER -> fails

_ALLOWED_VAULT_COMMANDS == {"view", "encrypt", "decrypt"}

\* F applied to the value of x, x evaluated once.
Bind(x, F(_)) == CHOOSE y \in {F(v) : v \in {x}} : TRUE

\* What _run_vault_command makes of the tool's exit.
Spawned(command, r) ==
  CASE r.exit = "ok" ->
         [status |-> "ok", stdout |-> r.stdout, file |-> r.file, spawned |-> TRUE]
    [] r.exit = "nonzero" ->
         [status |-> IF command = "view" THEN "VaultDecryptError"
                     ELSE "VaultEncryptError",
          stdout |-> <<>>, file |-> r.file, spawned |-> TRUE]
    [] OTHER ->
         [status |-> "VaultError", stdout |-> <<>>, file |-> r.file, spawned |-> TRUE]

\* _run_vault_command without its allow-list check.
run_vault_command_unchecked(command, file, pwdOk, fault) ==
  IF command = "view" /\ ~Exists(file)
  THEN [status |-> "VaultNotFoundError", stdout |-> <<>>, file |-> file,
        spawned |-> FALSE]
  ELSE IF ~pwdOk
  THEN [status |-> "VaultError", stdout |-> <<>>, file |-> file, spawned |-> FALSE]
  ELSE Bind(ansible_vault(command, file, pwdOk, fault),
            LAMBDA r : Spawned(command, r))

\* VaultClient._run_vault_command: the status raised (or "ok"), the output,
\* the file as the tool leaves it, and whether the tool was spawned.
run_vault_command(command, file, pwdOk, fault) ==
  IF command \notin _ALLOWED_VAULT_COMMANDS
  THEN [status |-> "VaultError", stdout |-> <<>>, file |-> file, spawned |-> FALSE]
  ELSE IF command = "view" /\ ~Exists(file)
  THEN [status |-> "VaultNotFoundError", stdout |-> <<>>, file |-> file,
        spawned |-> FALSE]
  ELSE IF ~pwdOk
  THEN [status |-> "VaultError", stdout |-> <<>>, file |-> file, spawned |-> FALSE]
  ELSE Bind(ansible_vault(command, file, pwdOk, fault),
            LAMBDA r : Spawned(command, r))

\* read_vault running the subcommand that decrypts the file in place.
ReadCommandDecrypt == "decrypt"

\* The subcommand read_vault runs.
ReadCommand == "view"

\* yaml.safe_load(output) or {}
LoadOrEmpty(output) ==
  Bind(yaml_safe_load(output),
       LAMBDA loaded : IF loaded.none \/ DOMAIN loaded.value = {}
                       THEN EmptyDoc ELSE loaded.value)

\* VaultClient.read_vault: status, the decrypted document, the file afterwards.
read_vault(file, pwdOk, fault) ==
  Bind(run_vault_command(ReadCommand, file, pwdOk, fault),
       LAMBDA r : [status |-> r.status,
                   doc |-> IF r.status = "ok" THEN LoadOrEmpty(r.stdout) ELSE EmptyDoc,
                   file |-> r.file])

\* get_auth_config with the except clause of get_oauth_clients: a missing
\* file read as the empty document.
get_auth_config_or_empty(file, pwdOk, fault) ==
  Bind(read_vault(file, pwdOk, fault),
       LAMBDA r : IF r.status = "VaultNotFoundError"
                  THEN [status |-> "ok", doc |-> EmptyDoc, file |-> r.file]
                  ELSE r)

\* VaultClient.get_auth_config: read_vault, every failure propagates.
get_auth_config(file, pwdOk, fault) == read_vault(file, pwdOk, fault)

\* get_oauth_clients without its except clause: VaultNotFoundError propagates.
get_oauth_clients_no_except(file, pwdOk, fault) ==
  Bind(read_vault(file, pwdOk, fault),
       LAMBDA r : [status |-> r.status,
                   clients |-> IF r.status = "ok" /\ HasClients(r.doc)
                               THEN r.doc.oauth_clients ELSE EmptyMap,
                   file |-> r.file])

\* VaultClient.get_oauth_clients
get_oauth_clients(file, pwdOk, fault) ==
  Bind(read_vault(file, pwdOk, fault),
       LAMBDA r :
         IF r.status = "VaultNotFoundError"
         THEN [status |-> "ok", clients |-> EmptyMap, file |-> r.file]
         ELSE [status |-> r.status,
               clients |-> IF r.status = "ok" /\ HasClients(r.doc)
                           THEN r.doc.oauth_clients ELSE EmptyMap,
               file |-> r.file])

IsActive(rec) == IF "is_active" \in DOMAIN rec THEN rec.is_active ELSE TRUE

ActiveCount(clients) == Cardinality({i \in DOMAIN clients : IsActive(clients[i])})

NameIn(clients, client_name) ==
  \E i \in DOMAIN clients :
     "client_name" \in DOMAIN clients[i] /\ clients[i].client_name = client_name

\* VaultClient.get_active_client_count
get_active_client_count(file, pwdOk, fault) ==
  Bind(get_oauth_clients(file, pwdOk, fault),
       LAMBDA r : [status |-> r.status, count |-> ActiveCount(r.clients),
                   file |-> r.file])

\* VaultClient.client_exists
client_exists(client_name, file, pwdOk, fault) ==
  Bind(get_oauth_clients(file, pwdOk, fault),
       LAMBDA r : [status |-> r.status, exists |-> NameIn(r.clients, client_name),
                   file |-> r.file])

(***************************************************************************)
(* Password hashing (password_handler.py) on Argon2id.  A hash string is   *)
(* the parameter header, the salt and the digest; the digest is one value  *)
(* per password and salt.  The library's verify raises InvalidHashError    *)
(* for a string without an Argon2 header, VerificationError for a string   *)
(* whose parameters, salt or digest cannot be decoded, VerifyMismatchError *)
(* for a well-formed hash of another password.  Values drawn from the      *)
(* random source are fresh: the i-th draw is its own value.                *)
(***************************************************************************)
Argon2Header == "$argon2id$v=19$m=65536,t=3,p=4$"

Argon2Digest(password, salt) == "H(" \o password \o "," \o salt \o ")"

FreshSalt(i) == "salt" \o ToString(i)
Salts == {FreshSalt(i) : i \in Ids}

\* hash_password, with the salt the library draws.
hash_password(password, salt) ==
  Argon2Header \o salt \o "$" \o Argon2Digest(password, salt)

generate_client_secret(i) == "bld_s_" \o ToString(i)

\* The text of client id i, as generate_client_id writes it.
ClientIdText(i) == "bld_" \o ToString(i)

AdminPassword == "admin-pw"
Passwords == {generate_client_secret(i) : i \in Ids} \cup {AdminPassword}

\* Strings that are no Argon2 hash: empty, a plaintext, a truncated hash, a
\* hash with an undecodable body.
Malformed == {"", AdminPassword, "$argon2id$", Argon2Header \o "!!"}

HashStrings ==
  {hash_password(w, s) : w \in Passwords, s \in Salts} \cup Malformed

\* The salt a hash string carries.
SaltOf(hashed) ==
  CHOOSE s \in Salts : \E w \in Passwords : hashed = hash_password(w, s)

\* _hasher.verify(hashed, password): "ok" or the exception it raises.
hasher_verify(hashed, password) ==
  IF Len(hashed) < 9 \/ SubSeq(hashed, 1, 9) # "$argon2id"
  THEN "InvalidHashError"
  ELSE IF ~\E s \in Salts, w \in Passwords : hashed = hash_password(w, s)
  THEN "VerificationError"
  ELSE IF hashed = hash_password(password, SaltOf(hashed))
  THEN "ok"
  ELSE "VerifyMismatchError"

\* verify_password: what it returns, or the exception it lets through.
verify_password(password, hashed) ==
  Bind(hasher_verify(hashed, password),
       LAMBDA e :
         CASE e = "ok" -> [raised |-> "none", value |-> TRUE]
           [] e \in {"VerifyMismatchError", "InvalidHashError"} ->
                [raised |-> "none", value |-> FALSE]
           [] OTHER -> [raised |-> e, value |-> FALSE])

\* generate_credentials handing the secret itself on as its hash.
generate_credentials_unhashed(i) ==
  [client_id |-> i,
   client_secret |-> generate_client_secret(i),
   hashed_secret |-> generate_client_secret(i)]

\* generate_credentials at the i-th draw of the random source.
generate_credentials(i) ==
  [client_id |-> i,
   client_secret |-> generate_client_secret(i),
   hashed_secret |-> hash_password(generate_client_secret(i), FreshSalt(i))]

(***************************************************************************)
(* State.                                                                  *)
(*   vaultFile   the file at oauth_clients_vault_path                      *)
(*   pwdExists   whether the vault password file exists                    *)
(*   nextId      the next client id generate_client_id hands out           *)
(*   alive[p]    FALSE once handler p has been killed                      *)
(*   pc[p]       the statement handler p executes next                     *)
(*   name[p]     the client_name of p's call                               *)
(*   cid[p]      the client_id of p's registration (0: none)               *)
(*   data[p]     existing_data of save_oauth_client, data of write_vault   *)
(*   enc[p]      encrypted_content of write_vault                          *)
(*   tmp[p]      p's temporary file                                        *)
(*   ret[p]      what p's call returned or raised                          *)
(*   seen        what the last read operation of the store returned or     *)
(*               raised, kept while no write to the vault file follows it  *)
(*   committed   the registrations whose save_oauth_client returned, each  *)
(*               with the value of nextId at its return                    *)
(*   disables    the number of soft-disables so far                        *)
(*   secret[p]   client_secret of p's generate_credentials ("": none)      *)
(*   hashed[p]   hashed_secret of p's generate_credentials ("": none)      *)
(*   supplied[p] the Basic credentials of p's last request ("": none)      *)
(*   response[p] the HTTP response to that request (code 0: none yet)      *)
(*   arg, out    the arguments and the result of a function called on its  *)
(*               own (NoArg, NoOut: none)                                  *)
(***************************************************************************)
VARIABLES vaultFile, pwdExists, nextId, alive, pc, name, cid, data,
          enc, tmp, ret, seen, committed, disables,
          secret, hashed, supplied, response, arg, out

vars == <<vaultFile, pwdExists, nextId, alive, pc, name, cid, data,
          enc, tmp, ret, seen, committed, disables,
          secret, hashed, supplied, response, arg, out>>

NoRet == [status |-> "none", clients |-> EmptyMap, count |-> 0, exists |-> FALSE]
Raised(status) == [NoRet EXCEPT !.status = status]
NotSeen == [op |-> "none", name |-> "", status |-> "none", clients |-> EmptyMap,
            count |-> 0, exists |-> FALSE]
NoResponse == [code |-> 0, client_id |-> 0, client_secret |-> ""]
NoArg == [op |-> "none"]
NoOut == [op |-> "none"]

\* The documents a deployment starts from: no file, the admin credential
\* alone, and a document that also holds a client record written before the
\* is_active flag existed.
AdminDoc == [auth_registration |-> AdminCred]
InitDocs ==
  { AdminDoc,
    [auth_registration |-> AdminCred,
     oauth_clients |->
       (1 :> [client_id |-> ClientIdText(1), client_name |-> "svc-a",
              secret_hash |-> generate_credentials(1).hashed_secret])] }

MaxId(doc) ==
  IF HasClients(doc) /\ DOMAIN doc.oauth_clients # {}
  THEN CHOOSE i \in DOMAIN doc.oauth_clients : \A j \in DOMAIN doc.oauth_clients : j <= i
  ELSE 0

InitHandlers ==
  /\ alive = [p \in Procs |-> TRUE]
  /\ pc = [p \in Procs |-> "idle"]
  /\ name = [p \in Procs |-> ""]
  /\ cid = [p \in Procs |-> 0]
  /\ data = [p \in Procs |-> EmptyDoc]
  /\ enc = [p \in Procs |-> NoFile]
  /\ tmp = [p \in Procs |-> NoFile]
  /\ ret = [p \in Procs |-> NoRet]
  /\ seen = NotSeen
  /\ committed = {}
  /\ disables = 0
  /\ secret = [p \in Procs |-> ""]
  /\ hashed = [p \in Procs |-> ""]
  /\ supplied = [p \in Procs |-> ""]
  /\ response = [p \in Procs |-> NoResponse]

InitLocals == InitHandlers /\ arg = NoArg /\ out = NoOut

Init ==
  /\ pwdExists \in BOOLEAN
  /\ \/ vaultFile = NoFile /\ nextId = 1
     \/ \E d \in InitDocs :
          /\ vaultFile = EncryptedFile(yaml_safe_dump(d))
          /\ nextId = MaxId(d) + 1
  /\ InitLocals

\* p's call ends: it returns or raises r.  The generated id and secret are
\* what a registration returns.
Finish(p, r) ==
  /\ pc' = [pc EXCEPT ![p] = "idle"]
  /\ ret' = [ret EXCEPT ![p] = r]
  /\ name' = [name EXCEPT ![p] = ""]
  /\ cid' = [cid EXCEPT ![p] = IF r.status = "ok" THEN cid[p] ELSE 0]
  /\ data' = [data EXCEPT ![p] = EmptyDoc]
  /\ enc' = [enc EXCEPT ![p] = NoFile]
  /\ secret' = [secret EXCEPT ![p] = IF r.status = "ok" THEN secret[p] ELSE ""]
  /\ hashed' = [hashed EXCEPT ![p] = ""]

\* p's call goes on at statement next.
Goto(p, next) ==
  /\ pc' = [pc EXCEPT ![p] = next]
  /\ UNCHANGED <<ret, name, cid, data, enc, secret, hashed>>

(***************************************************************************)
(* The read operations of the store, called by a handler that only reads:  *)
(* each is the one read_vault it makes.  The tool is not made to fail      *)
(* here; the registration's reads below take every fault.                  *)
(***************************************************************************)
list_clients ==
  /\ \E f \in {"ok"} :
       \E r \in {get_oauth_clients(vaultFile, pwdExists, f)} :
          /\ vaultFile' = r.file
          /\ seen' = [NotSeen EXCEPT !.op = "list", !.status = r.status,
                                     !.clients = r.clients]
  /\ UNCHANGED <<pwdExists, nextId, alive, pc, name, cid, data, enc,
                 tmp, ret, committed, disables>>
  /\ UNCHANGED <<secret, hashed, supplied, response, arg, out>>

active_client_count ==
  /\ \E f \in {"ok"} :
       \E r \in {get_active_client_count(vaultFile, pwdExists, f)} :
          /\ vaultFile' = r.file
          /\ seen' = [NotSeen EXCEPT !.op = "count", !.status = r.status,
                                     !.count = r.count]
  /\ UNCHANGED <<pwdExists, nextId, alive, pc, name, cid, data, enc,
                 tmp, ret, committed, disables>>
  /\ UNCHANGED <<secret, hashed, supplied, response, arg, out>>

client_name_exists ==
  /\ \E f \in {"ok"}, n \in Names :
       \E r \in {client_exists(n, vaultFile, pwdExists, f)} :
          /\ vaultFile' = r.file
          /\ seen' = [NotSeen EXCEPT !.op = "exists", !.name = n,
                                     !.status = r.status, !.exists = r.exists]
  /\ UNCHANGED <<pwdExists, nextId, alive, pc, name, cid, data, enc,
                 tmp, ret, committed, disables>>
  /\ UNCHANGED <<secret, hashed, supplied, response, arg, out>>

(***************************************************************************)
(* Registration: AuthService.register_client.  The capacity check and the  *)
(* uniqueness check each read the vault through the store's read           *)
(* operations; the record is then handed to save_oauth_client.             *)
(***************************************************************************)
\* The record of another client's id under the name and hash given.
NewRecordOfNextId(client_id, client_name, hashed_secret) ==
  [client_id |-> ClientIdText(client_id + 1), client_name |-> client_name,
   is_active |-> TRUE, secret_hash |-> hashed_secret]

NewRecord(client_id, client_name, hashed_secret) ==
  [client_id |-> ClientIdText(client_id), client_name |-> client_name,
   is_active |-> TRUE, secret_hash |-> hashed_secret]

register_client(p) ==
  /\ alive[p] /\ pc[p] = "idle"
  /\ nextId <= MaxIds
  /\ \E n \in Names : name' = [name EXCEPT ![p] = n]
  /\ \E c \in {generate_credentials(nextId)} :
       /\ cid' = [cid EXCEPT ![p] = c.client_id]
       /\ secret' = [secret EXCEPT ![p] = c.client_secret]
       /\ hashed' = [hashed EXCEPT ![p] = c.hashed_secret]
  /\ nextId' = nextId + 1
  /\ pc' = [pc EXCEPT ![p] = "reg_count"]
  /\ ret' = [ret EXCEPT ![p] = NoRet]
  /\ UNCHANGED <<vaultFile, pwdExists, alive, data, enc, tmp, seen,
                 committed, disables>>
  /\ UNCHANGED <<supplied, response, arg, out>>

register_check_capacity(p) ==
  /\ alive[p] /\ pc[p] = "reg_count"
  /\ \E f \in Faults :
       \E r \in {get_active_client_count(vaultFile, pwdExists, f)} :
          /\ vaultFile' = r.file
          /\ IF r.status # "ok"
             THEN Finish(p, Raised(r.status))
             ELSE IF r.count >= MAX_ACTIVE_CLIENTS
             THEN Finish(p, Raised("MaxClientsReachedError"))
             ELSE Goto(p, "reg_exists")
  /\ UNCHANGED <<pwdExists, nextId, alive, tmp, seen, committed, disables>>
  /\ UNCHANGED <<supplied, response, arg, out>>

register_check_name(p) ==
  /\ alive[p] /\ pc[p] = "reg_exists"
  /\ \E f \in Faults :
       \E r \in {client_exists(name[p], vaultFile, pwdExists, f)} :
          /\ vaultFile' = r.file
          /\ IF r.status # "ok"
             THEN Finish(p, Raised(r.status))
             ELSE IF r.exists
             THEN Finish(p, Raised("ClientExistsError"))
             ELSE Goto(p, "save_read")
  /\ UNCHANGED <<pwdExists, nextId, alive, tmp, seen, committed, disables>>
  /\ UNCHANGED <<supplied, response, arg, out>>

(***************************************************************************)
(* VaultClient.save_oauth_client: read the document, set the entry, and    *)
(* write the document back with write_vault.                               *)
(***************************************************************************)
\* save_oauth_client starting from the empty mapping whatever it has read.
ExistingDataEmpty(r) == [oauth_clients |-> EmptyMap]

ExistingData(r) ==
  LET d == IF r.status = "VaultNotFoundError"
           THEN [oauth_clients |-> EmptyMap]
           ELSE r.doc
  IN IF HasClients(d) THEN d ELSE WithKey(d, "oauth_clients", EmptyMap)

\* save_oauth_client without its except clause: a missing file ends the call.
save_oauth_client_no_except(p) ==
  /\ alive[p] /\ pc[p] = "save_read"
  /\ \E f \in Faults :
       \E r \in {read_vault(vaultFile, pwdExists, f)} :
       \E d \in {ExistingData(r)} :
          /\ vaultFile' = r.file
          /\ IF r.status # "ok"
             THEN Finish(p, Raised(r.status))
             ELSE /\ data' = [data EXCEPT ![p] =
                        WithKey(d, "oauth_clients",
                                WithEntry(d.oauth_clients, cid[p], NewRecord(cid[p], name[p], hashed[p])))]
                  /\ pc' = [pc EXCEPT ![p] = "w_temp"]
                  /\ UNCHANGED <<ret, name, cid, enc, secret, hashed>>
  /\ UNCHANGED <<pwdExists, nextId, alive, tmp, seen, committed, disables>>
  /\ UNCHANGED <<supplied, response, arg, out>>

save_oauth_client(p) ==
  /\ alive[p] /\ pc[p] = "save_read"
  /\ \E f \in Faults :
       \E r \in {read_vault(vaultFile, pwdExists, f)} :
       \E d \in {ExistingData(r)} :
          /\ vaultFile' = r.file
          /\ IF r.status \notin {"ok", "VaultNotFoundError"}
             THEN Finish(p, Raised(r.status))
             ELSE /\ data' = [data EXCEPT ![p] =
                        WithKey(d, "oauth_clients",
                                WithEntry(d.oauth_clients, cid[p], NewRecord(cid[p], name[p], hashed[p])))]
                  /\ pc' = [pc EXCEPT ![p] = "w_temp"]
                  /\ UNCHANGED <<ret, name, cid, enc, secret, hashed>>
  /\ UNCHANGED <<pwdExists, nextId, alive, tmp, seen, committed, disables>>
  /\ UNCHANGED <<supplied, response, arg, out>>

(***************************************************************************)
(* VaultClient.write_vault, statement by statement.                        *)
(***************************************************************************)
WritePcs == {"w_temp", "w_encrypt", "w_readtemp", "w_open", "w_write", "w_finally"}

\* yaml.safe_dump and the NamedTemporaryFile holding the plaintext.
write_vault_temp(p) ==
  /\ alive[p] /\ pc[p] = "w_temp"
  /\ tmp' = [tmp EXCEPT ![p] = PlainFile(yaml_safe_dump(data[p]))]
  /\ Goto(p, "w_encrypt")
  /\ UNCHANGED <<vaultFile, pwdExists, nextId, alive, seen, committed, disables>>
  /\ UNCHANGED <<supplied, response, arg, out>>

\* write_vault encrypting with the vault path as the tool's output file.
write_vault_encrypt_to_vault_path(p) ==
  /\ alive[p] /\ pc[p] = "w_encrypt"
  /\ \E f \in Faults :
       \E r \in {ansible_vault("encrypt", tmp[p], pwdExists, f)} :
          /\ vaultFile' = IF r.exit = "ok" THEN r.file ELSE vaultFile
          /\ pc' = [pc EXCEPT ![p] = IF r.exit = "ok" THEN "w_readtemp" ELSE "w_finally"]
          /\ ret' = [ret EXCEPT ![p] =
                       CASE r.exit = "ok" -> NoRet
                         [] r.exit = "nonzero" -> Raised("VaultEncryptError")
                         [] OTHER -> Raised("VaultError")]
  /\ UNCHANGED <<pwdExists, nextId, alive, name, cid, data, enc, tmp, seen,
                 committed, disables>>
  /\ UNCHANGED <<secret, hashed, supplied, response, arg, out>>

\* subprocess.run of "ansible-vault encrypt temp_path".
write_vault_encrypt(p) ==
  /\ alive[p] /\ pc[p] = "w_encrypt"
  /\ \E f \in Faults :
       \E r \in {ansible_vault("encrypt", tmp[p], pwdExists, f)} :
          /\ tmp' = [tmp EXCEPT ![p] = r.file]
          /\ pc' = [pc EXCEPT ![p] = IF r.exit = "ok" THEN "w_readtemp" ELSE "w_finally"]
          /\ ret' = [ret EXCEPT ![p] =
                       CASE r.exit = "ok" -> NoRet
                         [] r.exit = "nonzero" -> Raised("VaultEncryptError")
                         [] OTHER -> Raised("VaultError")]
  /\ UNCHANGED <<vaultFile, pwdExists, nextId, alive, name, cid, data,
                 enc, seen, committed, disables>>
  /\ UNCHANGED <<secret, hashed, supplied, response, arg, out>>

\* write_vault taking yaml_content, not the encrypted file, as the content.
write_vault_read_temp_plain(p) ==
  /\ alive[p] /\ pc[p] = "w_readtemp"
  /\ enc' = [enc EXCEPT ![p] = PlainFile(yaml_safe_dump(data[p]))]
  /\ pc' = [pc EXCEPT ![p] = "w_open"]
  /\ UNCHANGED <<vaultFile, pwdExists, nextId, alive, name, cid, data,
                 tmp, ret, seen, committed, disables>>
  /\ UNCHANGED <<secret, hashed, supplied, response, arg, out>>

\* encrypted_content = f.read() of the temporary file.
write_vault_read_temp(p) ==
  /\ alive[p] /\ pc[p] = "w_readtemp"
  /\ enc' = [enc EXCEPT ![p] = tmp[p]]
  /\ pc' = [pc EXCEPT ![p] = "w_open"]
  /\ UNCHANGED <<vaultFile, pwdExists, nextId, alive, name, cid, data,
                 tmp, ret, seen, committed, disables>>
  /\ UNCHANGED <<secret, hashed, supplied, response, arg, out>>

\* open(vault_path, "w"): the file is created or truncated, or the open fails.
write_vault_open(p) ==
  /\ alive[p] /\ pc[p] = "w_open"
  /\ \E opened \in BOOLEAN :
       IF opened
       THEN /\ vaultFile' = PlainFile(<<>>)
            /\ pc' = [pc EXCEPT ![p] = "w_write"]
            /\ seen' = NotSeen
            /\ UNCHANGED ret
       ELSE /\ pc' = [pc EXCEPT ![p] = "w_finally"]
            /\ ret' = [ret EXCEPT ![p] = Raised("OSError")]
            /\ UNCHANGED <<vaultFile, seen>>
  /\ UNCHANGED <<pwdExists, nextId, alive, name, cid, data, enc, tmp,
                 committed, disables>>
  /\ UNCHANGED <<secret, hashed, supplied, response, arg, out>>

\* f.write(encrypted_content) and the close of the file; a write that fails
\* (no space left, I/O error) leaves the truncated file.
write_vault_write(p) ==
  /\ alive[p] /\ pc[p] = "w_write"
  /\ \E written \in BOOLEAN :
       /\ vaultFile' = IF written THEN enc[p] ELSE vaultFile
       /\ ret' = [ret EXCEPT ![p] = Raised(IF written THEN "ok" ELSE "OSError")]
  /\ seen' = NotSeen
  /\ pc' = [pc EXCEPT ![p] = "w_finally"]
  /\ UNCHANGED <<pwdExists, nextId, alive, name, cid, data, enc, tmp,
                 committed, disables>>
  /\ UNCHANGED <<secret, hashed, supplied, response, arg, out>>

\* write_vault unlinking the temporary file at the end of the try block
\* instead of in a finally clause: a failure leaves the file behind.
write_vault_unlink_on_success(p) ==
  /\ alive[p] /\ pc[p] = "w_finally"
  /\ tmp' = [tmp EXCEPT ![p] = IF ret[p].status = "ok" THEN NoFile ELSE tmp[p]]
  /\ Finish(p, ret[p])
  /\ committed' = IF ret[p].status = "ok"
                  THEN committed \cup {[id |-> cid[p], name |-> name[p],
                                         upto |-> nextId]}
                  ELSE committed
  /\ UNCHANGED <<vaultFile, pwdExists, nextId, alive, seen, disables>>
  /\ UNCHANGED <<supplied, response, arg, out>>

\* os.chmod on success, the finally clause that unlinks the temporary file,
\* and the return (or raise) through save_oauth_client to the caller.
write_vault_finally(p) ==
  /\ alive[p] /\ pc[p] = "w_finally"
  /\ tmp' = [tmp EXCEPT ![p] = NoFile]
  /\ Finish(p, ret[p])
  /\ committed' = IF ret[p].status = "ok"
                  THEN committed \cup {[id |-> cid[p], name |-> name[p],
                                         upto |-> nextId]}
                  ELSE committed
  /\ UNCHANGED <<vaultFile, pwdExists, nextId, alive, seen, disables>>
  /\ UNCHANGED <<supplied, response, arg, out>>

(***************************************************************************)
(* The environment: a handler process is killed inside write_vault (a kill *)
(* elsewhere leaves nothing behind); an operator soft-disables a client in *)
(* the stored document.                                                    *)
(***************************************************************************)
Crash(p) ==
  /\ alive[p] /\ pc[p] \in WritePcs
  /\ Cardinality({q \in Procs : ~alive[q]}) < MaxCrashes
  /\ alive' = [alive EXCEPT ![p] = FALSE]
  /\ UNCHANGED <<vaultFile, pwdExists, nextId, pc, name, cid, data,
                 enc, tmp, ret, seen, committed, disables>>
  /\ UNCHANGED <<secret, hashed, supplied, response, arg, out>>

StoredDoc == read_vault(vaultFile, TRUE, "ok").doc
StoredClients == get_oauth_clients(vaultFile, TRUE, "ok").clients

Disable(i) ==
  /\ disables < MaxDisables
  /\ disables' = disables + 1
  /\ vaultFile.kind = "vault"
  /\ i \in DOMAIN StoredClients
  /\ IsActive(StoredClients[i])
  /\ vaultFile' = EncryptedFile(yaml_safe_dump(
        WithKey(StoredDoc, "oauth_clients",
                WithEntry(StoredClients, i,
                          WithKey(StoredClients[i], "is_active", FALSE)))))
  /\ seen' = NotSeen
  /\ UNCHANGED <<pwdExists, nextId, alive, pc, name, cid, data, enc,
                 tmp, ret, committed>>
  /\ UNCHANGED <<secret, hashed, supplied, response, arg, out>>

Next ==
  \/ list_clients
  \/ active_client_count
  \/ client_name_exists
  \/ \E p \in Procs : register_client(p)
  \/ \E p \in Procs : register_check_capacity(p)
  \/ \E p \in Procs : register_check_name(p)
  \/ \E p \in Procs : save_oauth_client(p)
  \/ \E p \in Procs : write_vault_temp(p)
  \/ \E p \in Procs : write_vault_encrypt(p)
  \/ \E p \in Procs : write_vault_read_temp(p)
  \/ \E p \in Procs : write_vault_open(p)
  \/ \E p \in Procs : write_vault_write(p)
  \/ \E p \in Procs : write_vault_finally(p)
  \/ \E p \in Procs : Crash(p)
  \/ \E i \in Ids : Disable(i)

Spec == Init /\ [][Next]_vars

(***************************************************************************)
(* N concurrent registrations against an empty vault: every handler calls  *)
(* register_client once, nothing else touches the vault.                   *)
(***************************************************************************)
InitRegister ==
  /\ pwdExists = TRUE
  /\ vaultFile \in {NoFile, EncryptedFile(yaml_safe_dump(AdminDoc))}
  /\ nextId = 1
  /\ InitLocals

register_client_once(p) == ret[p].status = "none" /\ register_client(p)

NextRegister ==
  \/ \E p \in Procs : register_client_once(p)
  \/ \E p \in Procs : register_check_capacity(p)
  \/ \E p \in Procs : register_check_name(p)
  \/ \E p \in Procs : save_oauth_client(p)
  \/ \E p \in Procs : write_vault_temp(p)
  \/ \E p \in Procs : write_vault_encrypt(p)
  \/ \E p \in Procs : write_vault_read_temp(p)
  \/ \E p \in Procs : write_vault_open(p)
  \/ \E p \in Procs : write_vault_write(p)
  \/ \E p \in Procs : write_vault_finally(p)

SpecRegister == InitRegister /\ [][NextRegister]_vars

(***************************************************************************)
(* write_vault and read_vault on every document of the bounded domain:     *)
(* one handler is about to write document D, nothing else writes.  The     *)
(* password file is there or not.                                          *)
(***************************************************************************)
Records ==
  {EmptyMap} \cup {[client_name |-> n] : n \in Names}
             \cup {[client_name |-> n, is_active |-> b] : n \in Names, b \in BOOLEAN}

ClientMaps == UNION {[S -> Records] : S \in SUBSET Ids}

Docs ==
  {EmptyDoc, AdminDoc}
    \cup {[oauth_clients |-> m] : m \in ClientMaps}
    \cup {[auth_registration |-> AdminCred, oauth_clients |-> m] : m \in ClientMaps}

InitRoundTrip ==
  /\ pwdExists \in BOOLEAN
  /\ vaultFile \in {NoFile, EncryptedFile(yaml_safe_dump(AdminDoc))}
  /\ nextId = 1
  /\ alive = [p \in Procs |-> TRUE]
  /\ pc = [p \in Procs |-> IF p = 1 THEN "w_temp" ELSE "idle"]
  /\ name = [p \in Procs |-> ""]
  /\ cid = [p \in Procs |-> 0]
  /\ \E D \in Docs : data = [p \in Procs |-> IF p = 1 THEN D ELSE EmptyDoc]
  /\ enc = [p \in Procs |-> NoFile]
  /\ tmp = [p \in Procs |-> NoFile]
  /\ ret = [p \in Procs |-> NoRet]
  /\ seen = NotSeen
  /\ committed = {}
  /\ disables = 0
  /\ secret = [p \in Procs |-> ""]
  /\ hashed = [p \in Procs |-> ""]
  /\ supplied = [p \in Procs |-> ""]
  /\ response = [p \in Procs |-> NoResponse]
  /\ arg = NoArg
  /\ out = NoOut

NextRoundTrip ==
  \/ \E p \in Procs : write_vault_temp(p)
  \/ \E p \in Procs : write_vault_encrypt(p)
  \/ \E p \in Procs : write_vault_read_temp(p)
  \/ \E p \in Procs : write_vault_open(p)
  \/ \E p \in Procs : write_vault_write(p)
  \/ \E p \in Procs : write_vault_finally(p)
  \/ list_clients

SpecRoundTrip == InitRoundTrip /\ [][NextRoundTrip]_vars

(***************************************************************************)
(* The store used by one worker, the first: it calls save_oauth_client     *)
(* directly with a new record, one call after the other, and the read      *)
(* operations come in between.                                             *)
(***************************************************************************)
save_client(p) ==
  /\ alive[p] /\ pc[p] = "idle"
  /\ \A q \in Procs : p <= q
  /\ nextId <= MaxIds
  /\ \E n \in Names : name' = [name EXCEPT ![p] = n]
  /\ \E c \in {generate_credentials(nextId)} :
       /\ cid' = [cid EXCEPT ![p] = c.client_id]
       /\ secret' = [secret EXCEPT ![p] = c.client_secret]
       /\ hashed' = [hashed EXCEPT ![p] = c.hashed_secret]
  /\ nextId' = nextId + 1
  /\ pc' = [pc EXCEPT ![p] = "save_read"]
  /\ ret' = [ret EXCEPT ![p] = NoRet]
  /\ UNCHANGED <<vaultFile, pwdExists, alive, data, enc, tmp, seen,
                 committed, disables>>
  /\ UNCHANGED <<supplied, response, arg, out>>

NextSequential ==
  \/ list_clients
  \/ active_client_count
  \/ client_name_exists
  \/ \E p \in Procs : save_client(p)
  \/ \E p \in Procs : save_oauth_client(p)
  \/ \E p \in Procs : write_vault_temp(p)
  \/ \E p \in Procs : write_vault_encrypt(p)
  \/ \E p \in Procs : write_vault_read_temp(p)
  \/ \E p \in Procs : write_vault_open(p)
  \/ \E p \in Procs : write_vault_write(p)
  \/ \E p \in Procs : write_vault_finally(p)
  \/ \E p \in Procs : Crash(p)

SpecSequential == Init /\ [][NextSequential]_vars

(***************************************************************************)
(* _run_vault_command called on its own: with every subcommand of the      *)
(* tool, allowed or not, on every kind of file, with and without the       *)
(* password file, under every fault of the tool.                           *)
(***************************************************************************)
Commands == _ALLOWED_VAULT_COMMANDS \cup {"rekey", "create", "edit"}

CommandFiles ==
  {NoFile, PlainFile(yaml_safe_dump(AdminDoc))}
    \cup {EncryptedFile(yaml_safe_dump(d)) : d \in InitDocs}

InitCommand ==
  /\ pwdExists \in BOOLEAN
  /\ vaultFile \in CommandFiles
  /\ nextId = 1
  /\ InitHandlers
  /\ \E c \in Commands : arg = [op |-> "run_vault_command", command |-> c]
  /\ out = NoOut

call_run_vault_command ==
  /\ arg.op = "run_vault_command" /\ out = NoOut
  /\ \E f \in Faults :
       \E r \in {run_vault_command(arg.command, vaultFile, pwdExists, f)} :
          /\ vaultFile' = r.file
          /\ out' = [op |-> "run_vault_command", fault |-> f, before |-> vaultFile,
                      status |-> r.status, stdout |-> r.stdout,
                      spawned |-> r.spawned]
  /\ UNCHANGED <<pwdExists, nextId, alive, pc, name, cid, data, enc, tmp, ret,
                 seen, committed, disables, secret, hashed, supplied, response,
                 arg>>

NextCommand == call_run_vault_command

SpecCommand == InitCommand /\ [][NextCommand]_vars

(***************************************************************************)
(* hash_password and verify_password called on their own, on every         *)
(* password and every hash string of the bounded domain.                   *)
(***************************************************************************)
InitHasher ==
  /\ pwdExists = TRUE
  /\ vaultFile = NoFile
  /\ nextId = 1
  /\ InitHandlers
  /\ arg \in {[op |-> "hash_password", password |-> w, hashed |-> ""] :
                 w \in Passwords}
             \cup {[op |-> "verify_password", password |-> w, hashed |-> h] :
                      w \in Passwords, h \in HashStrings}
  /\ out = NoOut

call_hash_password ==
  /\ arg.op = "hash_password" /\ out = NoOut
  /\ \E s \in Salts :
       out' = [op |-> "hash_password", raised |-> "none", value |-> FALSE,
               hashed |-> hash_password(arg.password, s)]
  /\ UNCHANGED <<vaultFile, pwdExists, nextId, alive, pc, name, cid, data, enc,
                 tmp, ret, seen, committed, disables, secret, hashed, supplied,
                 response, arg>>

call_verify_password ==
  /\ \/ arg.op = "verify_password" /\ out = NoOut /\ arg' = arg
     \/ /\ arg.op = "hash_password" /\ out.op = "hash_password"
        /\ \E t \in Passwords :
             arg' = [op |-> "verify_password", password |-> t, hashed |-> out.hashed]
  /\ \E r \in {verify_password(arg'.password, arg'.hashed)} :
       out' = [op |-> "verify_password", raised |-> r.raised, value |-> r.value,
               hashed |-> arg'.hashed]
  /\ UNCHANGED <<vaultFile, pwdExists, nextId, alive, pc, name, cid, data, enc,
                 tmp, ret, seen, committed, disables, secret, hashed, supplied,
                 response>>

NextHasher == call_hash_password \/ call_verify_password

SpecHasher == InitHasher /\ [][NextHasher]_vars

(***************************************************************************)
(* The registration endpoint served by one worker, the first, one request  *)
(* after the other: the Basic credentials are verified against the admin   *)
(* credential of the vault document, register_client is called, and the    *)
(* outcome is mapped to an HTTP status.  An operator may soft-disable a     *)
(* client in between.                                                      *)
(***************************************************************************)
ValidBasic == "admin:" \o AdminPassword
Basics == {ValidBasic, "admin:wrong", "eve:" \o AdminPassword}

\* The supplied username and password match the stored admin credential.
CredentialMatches(basic, cred) == cred = AdminCred /\ basic = ValidBasic

\* AuthService.verify_registration_credentials on the outcome r of
\* get_auth_config: "ok" or the exception it raises.
verify_registration_credentials(basic, r) ==
  IF r.status # "ok"
  THEN "RegistrationDisabledError"
  ELSE IF HasAuth(r.doc) /\ CredentialMatches(basic, r.doc.auth_registration)
  THEN "ok"
  ELSE "AuthenticationError"

\* The endpoint answering 201 whatever register_client raised.
http_status_created(status) == 201

\* The status code of the response: the except clauses of _verify_basic_auth
\* and of the route; "ok" is the route's status_code.
http_status(status) ==
  CASE status = "ok" -> 201
    [] status = "AuthenticationError" -> 401
    [] status = "RegistrationDisabledError" -> 503
    [] status = "ClientExistsError" -> 409
    [] status = "MaxClientsReachedError" -> 409
    [] status \in {"VaultError", "VaultNotFoundError", "VaultDecryptError",
                   "VaultEncryptError"} -> 500
    [] OTHER -> 500

\* A request arrives with Basic credentials and a client name.
post_register(p) ==
  /\ alive[p] /\ pc[p] = "idle"
  /\ supplied[p] = "" \/ response[p].code # 0
  /\ \A q \in Procs : p <= q
  /\ nextId <= MaxIds
  /\ \E b \in Basics : supplied' = [supplied EXCEPT ![p] = b]
  /\ \E n \in Names : name' = [name EXCEPT ![p] = n]
  /\ pc' = [pc EXCEPT ![p] = "auth"]
  /\ ret' = [ret EXCEPT ![p] = NoRet]
  /\ response' = [response EXCEPT ![p] = NoResponse]
  /\ cid' = [cid EXCEPT ![p] = 0]
  /\ secret' = [secret EXCEPT ![p] = ""]
  /\ UNCHANGED <<vaultFile, pwdExists, nextId, alive, data, enc, tmp, seen,
                 committed, disables, hashed, arg, out>>

\* The route entered without its _verify_basic_auth dependency.
route_register_client_unauthenticated(p) ==
  /\ alive[p] /\ pc[p] = "auth"
  /\ \E c \in {generate_credentials(nextId)} :
       /\ cid' = [cid EXCEPT ![p] = c.client_id]
       /\ secret' = [secret EXCEPT ![p] = c.client_secret]
       /\ hashed' = [hashed EXCEPT ![p] = c.hashed_secret]
  /\ nextId' = nextId + 1
  /\ pc' = [pc EXCEPT ![p] = "reg_count"]
  /\ UNCHANGED <<vaultFile, pwdExists, alive, name, data, enc, tmp, ret, seen,
                 committed, disables, supplied, response, arg, out>>

\* _verify_basic_auth: verify_registration_credentials on the admin
\* credential read with get_auth_config.
verify_basic_auth(p) ==
  /\ alive[p] /\ pc[p] = "auth"
  /\ \E f \in Faults :
       \E r \in {get_auth_config(vaultFile, pwdExists, f)} :
       \E v \in {verify_registration_credentials(supplied[p], r)} :
          /\ vaultFile' = r.file
          /\ IF v = "ok" THEN Goto(p, "route") ELSE Finish(p, Raised(v))
  /\ UNCHANGED <<pwdExists, nextId, alive, tmp, seen, committed, disables,
                 supplied, response, arg, out>>

\* The route calls AuthService.register_client with the request's name:
\* generate_credentials, then the checks and the save.
route_register_client(p) ==
  /\ alive[p] /\ pc[p] = "route"
  /\ \E c \in {generate_credentials(nextId)} :
       /\ cid' = [cid EXCEPT ![p] = c.client_id]
       /\ secret' = [secret EXCEPT ![p] = c.client_secret]
       /\ hashed' = [hashed EXCEPT ![p] = c.hashed_secret]
  /\ nextId' = nextId + 1
  /\ pc' = [pc EXCEPT ![p] = "reg_count"]
  /\ UNCHANGED <<vaultFile, pwdExists, alive, name, data, enc, tmp, ret, seen,
                 committed, disables, supplied, response, arg, out>>

\* The response: ClientRegistrationResponse with the id and the secret, or
\* the HTTPException of the exception raised.  The handler's copy of the
\* secret goes with it.
respond(p) ==
  /\ alive[p] /\ pc[p] = "idle"
  /\ supplied[p] # "" /\ response[p].code = 0 /\ ret[p].status # "none"
  /\ response' = [response EXCEPT ![p] =
                    [code |-> http_status(ret[p].status),
                     client_id |-> cid[p],
                     client_secret |-> secret[p]]]
  /\ cid' = [cid EXCEPT ![p] = 0]
  /\ secret' = [secret EXCEPT ![p] = ""]
  /\ UNCHANGED <<vaultFile, pwdExists, nextId, alive, pc, name, data, enc, tmp,
                 ret, seen, committed, disables, hashed, supplied, arg, out>>

NextEndpoint ==
  \/ \E p \in Procs : post_register(p)
  \/ \E p \in Procs : verify_basic_auth(p)
  \/ \E p \in Procs : route_register_client(p)
  \/ \E p \in Procs : register_check_capacity(p)
  \/ \E p \in Procs : register_check_name(p)
  \/ \E p \in Procs : save_oauth_client(p)
  \/ \E p \in Procs : write_vault_temp(p)
  \/ \E p \in Procs : write_vault_encrypt(p)
  \/ \E p \in Procs : write_vault_read_temp(p)
  \/ \E p \in Procs : write_vault_open(p)
  \/ \E p \in Procs : write_vault_write(p)
  \/ \E p \in Procs : write_vault_finally(p)
  \/ \E p \in Procs : respond(p)
  \/ \E i \in Ids : Disable(i)

SpecEndpoint == Init /\ [][NextEndpoint]_vars

(***************************************************************************)
(* One worker, the first, saving one record after the other through the    *)
(* capacity check, the uniqueness check and save_oauth_client; the vault    *)
(* file as it was when the call began is kept in arg.  An operator may      *)
(* soft-disable a client.                                                   *)
(***************************************************************************)
call_save_client(p) ==
  /\ alive[p] /\ pc[p] = "idle"
  /\ \A q \in Procs : p <= q
  /\ nextId <= MaxIds
  /\ \E n \in Names : name' = [name EXCEPT ![p] = n]
  /\ \E c \in {generate_credentials(nextId)} :
       /\ cid' = [cid EXCEPT ![p] = c.client_id]
       /\ secret' = [secret EXCEPT ![p] = c.client_secret]
       /\ hashed' = [hashed EXCEPT ![p] = c.hashed_secret]
  /\ nextId' = nextId + 1
  /\ pc' = [pc EXCEPT ![p] = "reg_count"]
  /\ ret' = [ret EXCEPT ![p] = NoRet]
  /\ arg' = [op |-> "save_client", before |-> vaultFile, disables |-> disables]
  /\ UNCHANGED <<vaultFile, pwdExists, alive, data, enc, tmp, seen,
                 committed, disables>>
  /\ UNCHANGED <<supplied, response, out>>

NextSave ==
  \/ \E p \in Procs : call_save_client(p)
  \/ \E p \in Procs : register_check_capacity(p)
  \/ \E p \in Procs : register_check_name(p)
  \/ \E p \in Procs : save_oauth_client(p)
  \/ \E p \in Procs : write_vault_temp(p)
  \/ \E p \in Procs : write_vault_encrypt(p)
  \/ \E p \in Procs : write_vault_read_temp(p)
  \/ \E p \in Procs : write_vault_open(p)
  \/ \E p \in Procs : write_vault_write(p)
  \/ \E p \in Procs : write_vault_finally(p)
  \/ \E i \in Ids : Disable(i)

SpecSave == Init /\ [][NextSave]_vars

(***************************************************************************)
(* UUIDv7Generator._uuid7 (id_generator.py).  A millisecond timestamp below *)
(* 2^48 is held as two 24-bit limbs, hi * 2^24 + lo; bytes are numbers in   *)
(* 0..255, a byte string is a sequence of them, index 1 being byte 0.  The  *)
(* generator is called once, and once more at a later millisecond.          *)
(***************************************************************************)
Limb == 256 * 256 * 256

Limbs == {0, 1, 255, 256, Limb - 1}
Timestamps == [hi : {0, 1, Limb - 1}, lo : Limbs]

\* t is an earlier millisecond than u.
Earlier(t, u) == t.hi < u.hi \/ (t.hi = u.hi /\ t.lo < u.lo)

\* The 16 bytes uuid.uuid4().bytes may hold, and other byte strings.
RandomBytes ==
  {[i \in 1..16 |-> b] : b \in {0, 255, 165}}
    \cup {[i \in 1..16 |-> (i * 37 + 11) % 256],
          [i \in 1..16 |-> IF i = 7 THEN 79 ELSE IF i = 9 THEN 191 ELSE (i * 101) % 256]}

\* The three big-endian bytes of a 24-bit limb.
LimbBytes(x) == <<x \div 65536, (x \div 256) % 256, x % 256>>

\* timestamp_ms.to_bytes(6, byteorder='little')
timestamp_bytes_little(t) ==
  <<t.lo % 256, (t.lo \div 256) % 256, t.lo \div 65536,
    t.hi % 256, (t.hi \div 256) % 256, t.hi \div 65536>>

\* timestamp_ms.to_bytes(6, byteorder='big')
timestamp_bytes(t) == LimbBytes(t.hi) \o LimbBytes(t.lo)

\* _uuid7 at millisecond t with random_bytes: the bytes of the UUID.
uuid7(t, random_bytes) ==
  Bind(timestamp_bytes(t) \o SubSeq(random_bytes, 7, 16),
       LAMBDA b : [b EXCEPT ![7] = 7 * 16 + (b[7] % 16),
                            ![9] = 128 + (b[9] % 64)])

NoBytes == <<>>

InitUuid ==
  /\ pwdExists = TRUE
  /\ vaultFile = NoFile
  /\ nextId = 1
  /\ InitHandlers
  /\ \E t \in Timestamps, r \in RandomBytes :
       arg = [op |-> "_uuid7", timestamp_ms |-> t, random_bytes |-> r]
  /\ out = NoOut

\* The first id.
call_uuid7 ==
  /\ arg.op = "_uuid7" /\ out = NoOut
  /\ out' = [op |-> "_uuid7", bytes |-> uuid7(arg.timestamp_ms, arg.random_bytes),
             earlier |-> NoBytes]
  /\ UNCHANGED <<vaultFile, pwdExists, nextId, alive, pc, name, cid, data, enc,
                 tmp, ret, seen, committed, disables, secret, hashed, supplied,
                 response, arg>>

\* Another id, at a strictly later millisecond.
call_uuid7_later ==
  /\ out.op = "_uuid7" /\ out.earlier = NoBytes
  /\ \E t \in Timestamps, r \in RandomBytes :
       /\ Earlier(arg.timestamp_ms, t)
       /\ arg' = [op |-> "_uuid7", timestamp_ms |-> t, random_bytes |-> r]
       /\ out' = [op |-> "_uuid7", bytes |-> uuid7(t, r), earlier |-> out.bytes]
  /\ UNCHANGED <<vaultFile, pwdExists, nextId, alive, pc, name, cid, data, enc,
                 tmp, ret, seen, committed, disables, secret, hashed, supplied,
                 response>>

NextUuid == call_uuid7 \/ call_uuid7_later

SpecUuid == InitUuid /\ [][NextUuid]_vars

(***************************************************************************)
(* The properties.                                                         *)
(***************************************************************************)
Returned(p) == pc[p] = "idle" /\ ret[p].status # "none"
Succeeded == {p \in Procs : Returned(p) /\ ret[p].status = "ok"}
Rejections == {"MaxClientsReachedError", "ClientExistsError"}

\* C1: of N concurrent register_client calls against an empty vault with
\* capacity 1, never two succeed, and once all have returned without a vault
\* failure exactly one has succeeded and the others were rejected.
C1_ExactlyOneRegistrationSucceeds ==
  /\ Cardinality(Succeeded) <= MAX_ACTIVE_CLIENTS
  /\ (\A p \in Procs : Returned(p) /\ ret[p].status \in Rejections \cup {"ok"})
       => Cardinality(Succeeded) = 1

\* C2: whenever the vault file holds a document, at most MAX_ACTIVE_CLIENTS
\* of its records are active (a record without the flag counts as active).
C2_ActiveClientsWithinCapacity ==
  vaultFile.kind = "vault" => ActiveCount(StoredClients) <= MAX_ACTIVE_CLIENTS

\* C3: at no time are two save_oauth_client executions both between their
\* read of the document and the completion of their write of the file.
InSave(p) ==
  alive[p] /\ pc[p] \in {"w_temp", "w_encrypt", "w_readtemp", "w_open", "w_write"}

C3_WritersMutuallyExcluded == Cardinality({p \in Procs : InSave(p)}) <= 1

\* C4: every registration whose save returned success is in the stored
\* document, whenever the vault file holds a document.
C4_NoLostUpdate ==
  vaultFile.kind = "vault" => \A c \in committed : c.id \in DOMAIN StoredClients

\* C5: a save_oauth_client that has written the file had read a document with
\* fewer than MAX_ACTIVE_CLIENTS active clients and no record of its name.
FreshlyRead(p) ==
  [i \in (DOMAIN data[p].oauth_clients) \ {cid[p]} |-> data[p].oauth_clients[i]]

C5_SaveRechecksFreshDocument ==
  \A p \in Procs :
     (pc[p] = "w_finally" /\ ret[p].status = "ok")
       => /\ ActiveCount(FreshlyRead(p)) < MAX_ACTIVE_CLIENTS
          /\ ~NameIn(FreshlyRead(p), name[p])

\* C6: no registration succeeds whose uniqueness check ran after a
\* registration of the same name had returned success.
C6_NameNeverRegisteredAgain ==
  \A c1 \in committed, c2 \in committed :
     (c1.name = c2.name /\ c1.id < c2.id) => c2.id < c1.upto

C8_ReadsIdempotent ==
  /\ seen.op = "list" =>
       get_oauth_clients(vaultFile, pwdExists, "ok")
         = [status |-> seen.status, clients |-> seen.clients, file |-> vaultFile]
  /\ seen.op = "count" =>
       get_active_client_count(vaultFile, pwdExists, "ok")
         = [status |-> seen.status, count |-> seen.count, file |-> vaultFile]
  /\ seen.op = "exists" =>
       client_exists(seen.name, vaultFile, pwdExists, "ok")
         = [status |-> seen.status, exists |-> seen.exists, file |-> vaultFile]

C8_Witness ==
  seen.op = "list" /\ seen.status = "ok" /\ Cardinality(DOMAIN seen.clients) = 2

\* C9: once write_vault has stored document D, read_vault yields exactly D.
Stored(p) == pc[p] = "w_finally" /\ ret[p].status = "ok"

C9_RoundTrip ==
  \A p \in Procs :
     Stored(p) =>
       read_vault(vaultFile, pwdExists, "ok")
         = [status |-> "ok", doc |-> data[p], file |-> vaultFile]

C9_Witness ==
  \E p \in Procs :
     /\ Stored(p) /\ HasAuth(data[p]) /\ HasClients(data[p])
     /\ \E i \in DOMAIN data[p].oauth_clients, j \in DOMAIN data[p].oauth_clients :
          /\ "is_active" \notin DOMAIN data[p].oauth_clients[i]
          /\ "is_active" \in DOMAIN data[p].oauth_clients[j]
          /\ ~data[p].oauth_clients[j].is_active

\* C10: no step of write_vault before its open of the vault path, and no
\* kill of the handler up to that open, changes the vault file.
C10_CrashBeforeReplaceKeepsFile ==
  [][\A p \in Procs :
       (alive[p] /\ \/ /\ pc[p] \in {"w_temp", "w_encrypt", "w_readtemp"}
                       /\ pc'[p] # pc[p]
                    \/ /\ pc[p] \in {"w_encrypt", "w_readtemp", "w_open"}
                       /\ ~alive'[p])
         => vaultFile' = vaultFile]_vars

C10_Witness ==
  \E p \in Procs :
     /\ ~alive[p] /\ pc[p] \in {"w_readtemp", "w_open"}
     /\ tmp[p].kind = "vault" /\ vaultFile.kind = "vault"
     /\ vaultFile # tmp[p]

\* C11: at every point of a write_vault execution, a kill at any step
\* included, the vault file holds a complete encrypted document (the previous
\* one or the new one) or, before the first write, does not exist: it is never
\* an empty or truncated file.
C11_VaultFileNeverTruncated == vaultFile.kind \in {"absent", "vault"}

C14_FailureClassification ==
  /\ \A f \in Faults :
       /\ ~Exists(vaultFile)
            => read_vault(vaultFile, TRUE, f).status = "VaultNotFoundError"
       /\ (Exists(vaultFile) /\ f \in {"nonzero", "timeout"})
            => read_vault(vaultFile, TRUE, f).status = "VaultDecryptError"
  /\ \A p \in Procs :
       (pc[p] = "w_finally" /\ tmp[p].kind = "plain")
         => ret[p].status = "VaultEncryptError"

\* The failure raised for a missing password file.
ConfigError == "VaultError"

\* C15: with the vault file present and the password file missing, every
\* read of the store and of the admin credential, and write_vault itself,
\* fails with the failure raised for a missing password file, which is none
\* of VaultNotFoundError, VaultDecryptError, VaultEncryptError.
C15_MissingPasswordFileIsConfigError ==
  (vaultFile.kind = "vault" /\ ~pwdExists) =>
    /\ ConfigError \notin {"VaultNotFoundError", "VaultDecryptError", "VaultEncryptError"}
    /\ \A f \in Faults :
         /\ read_vault(vaultFile, pwdExists, f).status = ConfigError
         /\ get_oauth_clients(vaultFile, pwdExists, f).status = ConfigError
         /\ get_active_client_count(vaultFile, pwdExists, f).status = ConfigError
         /\ \A n \in Names :
              client_exists(n, vaultFile, pwdExists, f).status = ConfigError
    /\ \A p \in Procs :
         (pc[p] = "w_finally" /\ ret[p].status # "ok") => ret[p].status = ConfigError

\* C13: the tool is spawned only with a subcommand of the allow-list; with
\* any other subcommand _run_vault_command raises VaultError whatever the
\* file, the password file and the tool would do, spawns nothing and leaves
\* the file alone.
C13_OnlyAllowListedSubcommands ==
  out.op = "run_vault_command" =>
    /\ out.spawned => arg.command \in {"view", "encrypt", "decrypt"}
    /\ arg.command \notin {"view", "encrypt", "decrypt"}
         => /\ out.status = "VaultError"
            /\ ~out.spawned
            /\ vaultFile = out.before

C13_Witness ==
  /\ out.op = "run_vault_command" /\ arg.command = "rekey"
  /\ pwdExists /\ out.before.kind = "vault" /\ out.fault = "ok"
  /\ out.status = "VaultError"

\* C17: verify_password never raises; it returns true for a hash of the
\* password, false for a hash of any other password, and false for every
\* string that is no decodable hash.
C17_VerifyNeverRaises ==
  out.op = "verify_password" =>
    /\ out.raised = "none"
    /\ (\E s \in Salts : arg.hashed = hash_password(arg.password, s)) => out.value
    /\ (\E s \in Salts, w \in Passwords \ {arg.password} :
           arg.hashed = hash_password(w, s)) => ~out.value
    /\ arg.hashed \in Malformed => ~out.value

\* C16: the vault file never holds a generated plaintext secret, and when a
\* registration is answered with 201 the stored record of the returned
\* client_id carries a secret_hash that verify_password accepts for the
\* returned client_secret.
ClientSecrets == {generate_client_secret(i) : i \in Ids}

C16_PlaintextSecretNeverStored ==
  /\ \A l \in LinesOf(vaultFile.text) : l.val \notin ClientSecrets
  /\ \A i \in DOMAIN StoredClients :
       /\ DOMAIN StoredClients[i] \subseteq {"client_id", "client_name", "is_active", "secret_hash"}
       /\ "secret_hash" \in DOMAIN StoredClients[i]
       /\ \E w \in ClientSecrets :
            verify_password(w, StoredClients[i].secret_hash).value
  /\ \A p \in Procs :
       response[p].code = 201 =>
          /\ response[p].client_secret \in ClientSecrets
          /\ response[p].client_id \in DOMAIN StoredClients
          /\ verify_password(response[p].client_secret,
                             StoredClients[response[p].client_id].secret_hash).value

C16_Witness ==
  \E p \in Procs :
    /\ response[p].code = 201
    /\ response[p].client_secret = generate_client_secret(response[p].client_id)
    /\ vaultFile.kind = "vault"
    /\ \E l \in LinesOf(vaultFile.text) :
         l.id = response[p].client_id /\ l.field = "secret_hash"

\* C18: every response of the registration endpoint carries the one status
\* code of its outcome: 401 for an invalid admin credential, 503 when the
\* registration service is unavailable, 409 for a duplicate name and for
\* reached capacity, 500 for a failure of the vault, and 201 exactly when
\* register_client returned, its save_oauth_client having completed.
C18_OutcomeMapping ==
  \A p \in Procs :
    response[p].code # 0 =>
      /\ response[p].code \in {201, 401, 409, 500, 503}
      /\ ret[p].status = "AuthenticationError" => response[p].code = 401
      /\ ret[p].status = "RegistrationDisabledError" => response[p].code = 503
      /\ ret[p].status = "ClientExistsError" => response[p].code = 409
      /\ ret[p].status = "MaxClientsReachedError" => response[p].code = 409
      /\ ret[p].status \in {"VaultError", "VaultNotFoundError", "VaultDecryptError",
                             "VaultEncryptError", "OSError"} => response[p].code = 500
      /\ response[p].code = 201 <=> ret[p].status = "ok"
      /\ response[p].code = 201 =>
           \E c \in committed : c.id = response[p].client_id
      /\ response[p].code = 401 => supplied[p] # ValidBasic

C18_Witness ==
  \E p \in Procs :
    /\ response[p].code = 409 /\ ret[p].status = "ClientExistsError"
    /\ supplied[p] = ValidBasic

\* The phase of p's registration request.
Phase(p) ==
  CASE pc[p] = "auth" -> "RECEIVED"
    [] pc[p] = "route" -> "AUTHENTICATED"
    [] pc[p] \in {"reg_count", "reg_exists", "save_read"} \cup WritePcs -> "GENERATED"
    [] pc[p] = "idle" /\ supplied[p] # "" /\ ret[p].status = "ok"
         /\ response[p].code = 0 -> "PERSISTED"
    [] pc[p] = "idle" /\ supplied[p] # "" /\ response[p].code = 201 -> "RETURNED"
    [] pc[p] = "idle" /\ supplied[p] # ""
         /\ ret[p].status \notin {"none", "ok"} -> "REJECTED"
    [] OTHER -> "NONE"

PhaseSteps ==
  { <<"NONE", "RECEIVED">>, <<"RETURNED", "RECEIVED">>, <<"REJECTED", "RECEIVED">>,
    <<"RECEIVED", "AUTHENTICATED">>, <<"RECEIVED", "REJECTED">>,
    <<"AUTHENTICATED", "GENERATED">>,
    <<"GENERATED", "PERSISTED">>, <<"GENERATED", "REJECTED">>,
    <<"PERSISTED", "RETURNED">> }

\* C19: a request moves RECEIVED -> AUTHENTICATED -> GENERATED -> PERSISTED
\* -> RETURNED and is rejected only from RECEIVED or GENERATED; it is past
\* RECEIVED only with the admin's credentials; credentials are generated
\* only by an authenticated request and the vault file is written only by
\* a request that has generated its credentials (or by the operator).
C19_RequestStateMachine ==
  /\ [](\A p \in Procs :
          Phase(p) \in {"AUTHENTICATED", "GENERATED", "PERSISTED", "RETURNED"}
            => supplied[p] = ValidBasic)
  /\ [][ /\ \A p \in Procs :
              Phase(p)' # Phase(p) => <<Phase(p), Phase(p)'>> \in PhaseSteps
         /\ nextId' # nextId =>
              \E p \in Procs : Phase(p) = "AUTHENTICATED" /\ Phase(p)' = "GENERATED"
         /\ (vaultFile' # vaultFile /\ disables' = disables) =>
              \E p \in Procs : Phase(p) = "GENERATED" ]_vars

C19_Witness ==
  \E p \in Procs :
    /\ Phase(p) = "RETURNED"
    /\ \E c \in committed : c.id = response[p].client_id
    /\ vaultFile.kind = "vault"

\* C20: get_auth_config on a missing vault file raises VaultNotFoundError and
\* on a file the tool cannot decrypt VaultDecryptError, never returning an
\* empty document; whenever it raises, verify_registration_credentials
\* raises RegistrationDisabledError.  A request is refused with
\* AuthenticationError only if the document was read and the supplied
\* credentials do not match, and is let through only if it was read and
\* they match.
C20_UnreadableAdminDocIsUnavailable ==
  /\ [](\A f \in Faults, b \in Basics :
          \E r \in {get_auth_config(vaultFile, pwdExists, f)} :
             /\ ~Exists(vaultFile) => r.status = "VaultNotFoundError"
             /\ (Exists(vaultFile) /\ pwdExists /\ f = "nonzero")
                   => r.status = "VaultDecryptError"
             /\ r.status # "ok"
                   => verify_registration_credentials(b, r) = "RegistrationDisabledError"
             /\ verify_registration_credentials(b, r) = "AuthenticationError"
                   => r.status = "ok" /\ b # ValidBasic)
  /\ [][\A p \in Procs :
          (pc[p] = "auth" /\ pc'[p] # "auth") =>
             /\ ret'[p].status = "AuthenticationError"
                  => vaultFile.kind = "vault" /\ pwdExists /\ supplied[p] # ValidBasic
             /\ pc'[p] = "route"
                  => vaultFile.kind = "vault" /\ pwdExists /\ supplied[p] = ValidBasic
             /\ (~Exists(vaultFile) \/ ~pwdExists)
                  => ret'[p].status = "RegistrationDisabledError" ]_vars

C20_Witness ==
  \E p \in Procs :
    /\ ~Exists(vaultFile)
    /\ supplied[p] = ValidBasic
    /\ ret[p].status = "RegistrationDisabledError"
    /\ response[p].code = 503

\* C21: save_oauth_client on a missing vault file goes on to write, whatever
\* the tool does, with the document that holds exactly the new record under
\* oauth_clients; on a document without the oauth_clients key it adds the key
\* with exactly the new record; and a write_vault that succeeded has stored
\* the document it was given.
OnlyNewRecord(p) == cid[p] :> NewRecord(cid[p], name[p], hashed[p])

C21_FirstWriteCreatesDocument ==
  /\ [](\A p \in Procs :
          (alive[p] /\ pc[p] = "w_finally" /\ ret[p].status = "ok")
            => vaultFile.kind = "vault" /\ StoredDoc = data[p])
  /\ [][\A p \in Procs :
          (pc[p] = "save_read" /\ pc'[p] # "save_read") =>
             /\ ~Exists(vaultFile) =>
                  /\ pc'[p] = "w_temp"
                  /\ data'[p] = [oauth_clients |-> OnlyNewRecord(p)]
             /\ (pc'[p] = "w_temp" /\ vaultFile.kind = "vault"
                   /\ ~HasClients(StoredDoc)) =>
                  data'[p] = WithKey(StoredDoc, "oauth_clients", OnlyNewRecord(p)) ]_vars

C21_Witness ==
  /\ vaultFile.kind = "vault"
  /\ ~HasAuth(StoredDoc)
  /\ \E p \in Procs :
       /\ pc[p] = "idle" /\ ret[p].status = "ok"
       /\ StoredClients = (cid[p] :> NewRecord(cid[p], "svc-a", generate_credentials(cid[p]).hashed_secret))

\* C22: in the stored document every record of oauth_clients carries the
\* client_id it is stored under.
C22_KeyEqualsClientId ==
  \A i \in DOMAIN StoredClients :
     /\ "client_id" \in DOMAIN StoredClients[i]
     /\ StoredClients[i].client_id = ClientIdText(i)

C22_Witness ==
  /\ vaultFile.kind = "vault"
  /\ \E c \in committed :
       /\ c.id \in DOMAIN StoredClients
       /\ StoredClients[c.id].client_id = ClientIdText(c.id)
  /\ Cardinality(DOMAIN StoredClients) >= 2

\* after is before with the entry oauth_clients[id] set and nothing else
\* changed.
FrameHolds(before, after, id) ==
  /\ DOMAIN after = DOMAIN before \cup {"oauth_clients"}
  /\ \A k \in DOMAIN before \ {"oauth_clients"} : after[k] = before[k]
  /\ \E b \in {IF HasClients(before) THEN before.oauth_clients ELSE EmptyMap} :
       /\ DOMAIN after.oauth_clients = DOMAIN b \cup {id}
       /\ \A i \in DOMAIN b \ {id} : after.oauth_clients[i] = b[i]

\* C23: with one worker, the document save_oauth_client is about to write
\* differs from the document still in the vault file in the entry of its
\* client_id only, every other record and every other top-level key being
\* the same; and the document in the file after a successful write is that
\* document.
C23_SaveFrame ==
  \A p \in Procs :
     alive[p] =>
       /\ (pc[p] \in {"w_temp", "w_encrypt", "w_readtemp", "w_open"}
             /\ vaultFile.kind = "vault")
            => /\ FrameHolds(StoredDoc, data[p], cid[p])
               /\ data[p].oauth_clients[cid[p]] = NewRecord(cid[p], name[p], hashed[p])
       /\ (pc[p] = "w_finally" /\ ret[p].status = "ok")
            => vaultFile.kind = "vault" /\ yaml_safe_dump(data[p]) = vaultFile.text

C23_Witness ==
  \E p \in Procs :
    /\ pc[p] = "idle" /\ ret[p].status = "ok"
    /\ vaultFile.kind = "vault"
    /\ HasAuth(StoredDoc) /\ StoredDoc.auth_registration = AdminCred
    /\ cid[p] \in DOMAIN StoredClients /\ cid[p] # 1
    /\ 1 \in DOMAIN StoredClients /\ StoredClients[1].client_name = "svc-a"

\* C24: when a save has failed, for whatever reason, the vault file is what
\* it was when the call began.
C24_FailedSaveLeavesFileUnchanged ==
  \A p \in Procs :
     (arg.op = "save_client" /\ arg.disables = disables
        /\ pc[p] = "idle" /\ ret[p].status \notin {"none", "ok"})
       => vaultFile = arg.before

\* C25: a list_clients that runs while a save is writing, the tool and the
\* password file being in order, succeeds and returns the mapping as it was
\* before the save or as it is after it.
C25_ReaderSeesBeforeOrAfter ==
  \A p \in Procs :
     (alive[p] /\ pc[p] \in WritePcs /\ seen.op = "list" /\ pwdExists)
       => /\ seen.status = "ok"
          /\ seen.clients \in {FreshlyRead(p), data[p].oauth_clients}

\* a is smaller than b in bytewise (lexicographic) order.
BytesLess(a, b) ==
  \E k \in 1..16 : a[k] < b[k] /\ \A j \in 1..(k - 1) : a[j] = b[j]

\* C26: the UUID has 16 bytes; its first six are the timestamp, most
\* significant byte first; the high nibble of byte 6 is 7 and the two high
\* bits of byte 8 are 10; every other bit of bytes 6..15 is the bit of the
\* random bytes at that place; and an id of a strictly later millisecond is
\* bytewise greater than the earlier one.
C26_Uuid7Layout ==
  out.op = "_uuid7" =>
    /\ Len(out.bytes) = 16
    /\ \A i \in 1..16 : out.bytes[i] \in 0..255
    /\ (out.bytes[1] * 256 + out.bytes[2]) * 256 + out.bytes[3] = arg.timestamp_ms.hi
    /\ (out.bytes[4] * 256 + out.bytes[5]) * 256 + out.bytes[6] = arg.timestamp_ms.lo
    /\ out.bytes[7] \div 16 = 7
    /\ out.bytes[9] \div 64 = 2
    /\ out.bytes[7] % 16 = arg.random_bytes[7] % 16
    /\ out.bytes[9] % 64 = arg.random_bytes[9] % 64
    /\ \A i \in {8} \cup 10..16 : out.bytes[i] = arg.random_bytes[i]
    /\ out.earlier # NoBytes => BytesLess(out.earlier, out.bytes)

C26_Witness ==
  /\ out.op = "_uuid7" /\ out.earlier # NoBytes
  /\ arg.timestamp_ms = [hi |-> 1, lo |-> 0]
  /\ out.earlier[4] = 255 /\ out.earlier[7] = 7 * 16 + 15
  /\ out.bytes[3] = 1 /\ out.bytes[7] \div 16 = 7
====
